---- MODULE Spec2Model ----
(***************************************************************************)
(* Model of lib/pluto/pluto_source_c.cc: the ring buffer shared by the     *)
(* acquisition thread (plutosdr_wait / plutosdr_callback) and the consumer *)
(* (work), together with start() and stop().                               *)
(*                                                                         *)
(* Three threads are modelled: the caller of start()/stop() (k), the       *)
(* acquisition thread (t) and the caller of work() (c).  Every step is one *)
(* access to shared state, or the work done while one lock is held.        *)
(* Blocks are tagged with the number of the push that stored them.         *)
(***************************************************************************)
EXTENDS Integers, Naturals, FiniteSets, Sequences, TLC

\* ---- program constants -------------------------------------------------
BUF_LEN == 512 * 16 * 100
BUF_NUM == 15
BUF_SKIP == 1
BYTES_PER_SAMPLE == 4
WORK_DONE == -1
MIN_PREFILL == 3

\* ---- bounds of the model -----------------------------------------------
\* largest "buffers" argument given to the constructor
MaxBuffers == 3
\* number of blocks the driver delivers in one run
MaxDeliveries == 6
\* largest request of work(), in half blocks
MaxWant == 7
\* number of start() calls
MaxStarts == 2
\* number of blocks delivered in the burst of SpecPush
MaxBurst == 21

VARIABLES
    _running,       \* bool _running
    _skipped,       \* unsigned int _skipped
    _buf_num,       \* unsigned int _buf_num
    _buf_len,       \* unsigned int _buf_len
    _buf_head,      \* unsigned int _buf_head
    _buf_used,      \* unsigned int _buf_used
    _buf_offset,    \* unsigned int _buf_offset
    _samp_avail,    \* int _samp_avail
    _buf,           \* _buf[i]: tag of the block stored in slot i (0: never written)
    mutex,          \* owner of _buf_mutex: "free", "work" or "callback"
    woken,          \* the thread blocked in _buf_cond.wait has been woken
    cpc,            \* consumer: position inside work()
    want,           \* consumer: noutput_items as passed to the current call
    noutput_items,  \* consumer: local noutput_items
    nout,           \* consumer: local nout
    bufp,           \* consumer: slot the local pointer buf points into
    out,            \* consumer: out - output_items[0]
    ret,            \* consumer: value returned by the last work() call
    tpc,            \* acquisition thread: position
    buf_tail,       \* acquisition thread: local buf_tail of the callback
    cancel_req,     \* driver: a cancel request is pending
    kpc,            \* caller of start()/stop(): position
    deliveries,     \* history: callbacks made by the driver
    starts,         \* history: start() calls
    pushed,         \* history: pushes completed (tag of the newest block)
    overflows,      \* history: overflow markers written ("O")
    emitted,        \* history: samples written to the output, all calls
    advances,       \* history: times the consumer advanced head
    lastSeq,        \* history: tag of the block the last samples came from
    prefilled,      \* history: work() has seen _buf_used at the prefill threshold
    entryUsed,      \* history: _buf_used when the current call took the lock
                    \* (-1 before the first call)
    entryRunning,   \* history: _running when the current call took the lock
    sawPrefill,     \* history: the current call saw used >= 3 under the lock
    stopped,        \* history: stop() has returned and start() was not called since
    carried,        \* history: _buf_used when start() was last called
    open_ret        \* constructor: local ret, the result of plutosdr_open

vars == << _running, _skipped, _buf_num, _buf_len, _buf_head, _buf_used,
           _buf_offset, _samp_avail, _buf, mutex, woken, cpc, want,
           noutput_items, nout, bufp, out, ret, tpc, buf_tail, cancel_req,
           kpc, deliveries, starts, pushed, overflows, emitted, advances,
           lastSeq, prefilled, entryUsed, entryRunning, sawPrefill, stopped,
           carried, open_ret >>

lifeVars == << stopped, carried, open_ret >>
ringVars == << _buf_head, _buf_used, _buf >>
cursorVars == << _buf_offset, _samp_avail >>
configVars == << _buf_num, _buf_len >>
workLocals == << want, noutput_items, nout, bufp, out, ret >>
histVars == << deliveries, starts, pushed, overflows, emitted, advances,
               lastSeq, prefilled, entryUsed, entryRunning, sawPrefill >>

Min(a, b) == IF a < b THEN a ELSE b
Max(a, b) == IF a > b THEN a ELSE b

\* ---- constructor -------------------------------------------------------
\* line 104-111: "buffers" argument, 0 when absent
BufNumOf(buffers) == IF buffers = 0 THEN BUF_NUM ELSE buffers

\* line 107-114: "buflen" argument, 0 when absent
BufLenOf(buflen) ==
    IF buflen = 0 \/ buflen % 512 # 0 THEN BUF_LEN ELSE buflen

\* line 121 and 279: samples in one block
SampPerBuf(len) == len \div BYTES_PER_SAMPLE

BuffersArgs == 1..MaxBuffers
BuflenArgs == {0}

\* line 86-121: the members before the device is opened
Configured(buffers, buflen) ==
    /\ _skipped = 0
    /\ _buf_num = BufNumOf(buffers)
    /\ _buf_len = BufLenOf(buflen)
    /\ _buf_head = 0
    /\ _buf_used = 0
    /\ _buf_offset = 0
    /\ _samp_avail = SampPerBuf(BufLenOf(buflen))
    /\ mutex = "free"
    /\ woken = FALSE
    /\ cpc = "idle"
    /\ want = 0
    /\ noutput_items = 0
    /\ nout = 0
    /\ bufp = 0
    /\ out = 0
    /\ ret = 0
    /\ buf_tail = 0
    /\ cancel_req = FALSE
    /\ deliveries = 0
    /\ pushed = 0
    /\ overflows = 0
    /\ emitted = 0
    /\ advances = 0
    /\ lastSeq = 0
    /\ prefilled = FALSE
    /\ entryUsed = -1
    /\ entryRunning = FALSE
    /\ sawPrefill = FALSE
    /\ stopped = FALSE
    /\ carried = 0
    /\ open_ret = 0

\* line 144-149: the slots of a ring of num blocks, not yet written
Slots(num) == [i \in 0..(num - 1) |-> 0]

\* line 87: _buf(NULL)
NoSlots == << >>

\* line 86-149: the members after construction
Constructed(buffers, buflen) ==
    /\ Configured(buffers, buflen)
    /\ _buf = Slots(BufNumOf(buffers))

\* the constructor has run up to line 121 and is about to open the device
Init ==
    /\ \E buffers \in BuffersArgs, buflen \in BuflenArgs :
          Configured(buffers, buflen)
    /\ _buf = NoSlots
    /\ _running = FALSE
    /\ tpc = "none"
    /\ kpc = "ctor_open"
    /\ starts = 0

\* results of plutosdr_open: success and failure
OpenResults == {0, -1}

\* variant of OpenThrows: a failed open is not noticed
OpenThrowsNever(r) == FALSE

\* line 129
OpenThrows(r) == r < 0

\* line 127-130: the device is opened; a failure throws
CtorOpen ==
    /\ kpc = "ctor_open"
    /\ \E r \in OpenResults :
          /\ open_ret' = r
          /\ kpc' = IF OpenThrows(r) THEN "failed" ELSE "ctor_alloc"
    /\ UNCHANGED << stopped, carried, _running, _skipped, configVars,
                    ringVars, cursorVars, mutex, woken, cpc, workLocals, tpc,
                    buf_tail, cancel_req, histVars >>

\* line 133-149: the device is configured and the slots are allocated
CtorAlloc ==
    /\ kpc = "ctor_alloc"
    /\ _buf' = Slots(_buf_num)
    /\ kpc' = "idle"
    /\ UNCHANGED << lifeVars, _running, _skipped, configVars, _buf_head,
                    _buf_used, cursorVars, mutex, woken, cpc, workLocals, tpc,
                    buf_tail, cancel_req, histVars >>

\* ---- mutex ---------------------------------------------------------------
\* variant of LockFree: a scoped_lock is granted while the mutex is held
LockFreeAlways(m) == TRUE

\* line 211, 253, 256 and 274: a scoped_lock, and the return of wait, take
\* _buf_mutex only when no thread holds it
LockFree(m) == m = "free"

\* ---- condition variable ------------------------------------------------
\* _buf_cond.notify_one(): wakes the consumer if it is blocked in wait
NotifyOne(w) == IF cpc = "waiting" THEN TRUE ELSE w

\* ---- start() and stop() ------------------------------------------------
\* variant of Start: the skip window is opened again
StartResetsSkip ==
    /\ kpc = "idle"
    /\ tpc = "none"
    /\ cpc = "idle"
    /\ starts < MaxStarts
    /\ _running' = TRUE
    /\ _skipped' = 0
    /\ tpc' = "spawned"
    /\ starts' = starts + 1
    /\ stopped' = FALSE
    /\ carried' = _buf_used
    /\ UNCHANGED << open_ret, configVars, ringVars, cursorVars, mutex, woken,
                    cpc, workLocals, buf_tail, cancel_req, kpc, deliveries,
                    pushed, overflows, emitted, advances, lastSeq, prefilled,
                    entryUsed, entryRunning, sawPrefill >>

\* line 179-185: start() is called on a source whose thread object holds no
\* thread, and not while a work() call is in progress
Start ==
    /\ kpc = "idle"
    /\ tpc = "none"
    /\ cpc = "idle"
    /\ starts < MaxStarts
    /\ _running' = TRUE
    /\ tpc' = "spawned"
    /\ starts' = starts + 1
    /\ stopped' = FALSE
    /\ carried' = _buf_used
    /\ UNCHANGED << open_ret, _skipped, configVars, ringVars, cursorVars, mutex, woken,
                    cpc, workLocals, buf_tail, cancel_req, kpc, deliveries,
                    pushed, overflows, emitted, advances, lastSeq, prefilled,
                    entryUsed, entryRunning, sawPrefill >>

\* line 189
StopFlag ==
    /\ kpc = "idle"
    /\ _running' = FALSE
    /\ kpc' = "stop_cancel"
    /\ UNCHANGED << lifeVars, _skipped, configVars, ringVars, cursorVars, mutex, woken,
                    cpc, workLocals, tpc, buf_tail, cancel_req, histVars >>

\* line 161 and 191, plutosdr_cancel_async: the request reaches a read loop
\* that is running; one made before the thread entered plutosdr_read_async
\* may or may not be kept
CancelAsync ==
    \/ /\ tpc \in {"reading", "cb_lock", "cb_copy", "cb_notify"}
       /\ cancel_req' = TRUE
    \/ /\ tpc = "spawned"
       /\ cancel_req' \in BOOLEAN
    \/ /\ tpc \in {"none", "returned", "exit_notify", "done"}
       /\ cancel_req' = cancel_req

\* line 190-191: _dev is not NULL between construction and destruction
StopCancel ==
    /\ kpc = "stop_cancel"
    /\ kpc' = "stop_join"
    /\ CancelAsync
    /\ UNCHANGED << lifeVars, _running, _skipped, configVars, ringVars, cursorVars,
                    mutex, woken, cpc, workLocals, tpc, buf_tail, histVars >>

\* variant of JoinReturns: the join does not wait for the thread
JoinReturnsAtOnce(t) == TRUE

\* line 162 and 192: join returns once the thread has finished, and at once
\* when the thread object holds no thread
JoinReturns(t) == t \in {"done", "none"}

\* line 192-194
StopJoin ==
    /\ kpc = "stop_join"
    /\ JoinReturns(tpc)
    /\ tpc' = IF tpc = "done" THEN "none" ELSE tpc
    /\ kpc' = "idle"
    /\ stopped' = TRUE
    /\ UNCHANGED << carried, open_ret, _running, _skipped, configVars, ringVars, cursorVars,
                    mutex, woken, cpc, workLocals, buf_tail, cancel_req,
                    histVars >>

\* ---- destructor --------------------------------------------------------
\* line 157-160: the object is destroyed while no work() call is in progress
DtorBegin ==
    /\ kpc = "idle"
    /\ cpc = "idle"
    /\ IF _running
          THEN /\ _running' = FALSE
               /\ kpc' = "dtor_cancel"
          ELSE /\ _running' = _running
               /\ kpc' = "dtor_free"
    /\ UNCHANGED << lifeVars, _skipped, configVars, ringVars, cursorVars,
                    mutex, woken, cpc, workLocals, tpc, buf_tail, cancel_req,
                    histVars >>

\* line 161
DtorCancel ==
    /\ kpc = "dtor_cancel"
    /\ kpc' = "dtor_join"
    /\ CancelAsync
    /\ UNCHANGED << lifeVars, _running, _skipped, configVars, ringVars,
                    cursorVars, mutex, woken, cpc, workLocals, tpc, buf_tail,
                    histVars >>

\* line 162
DtorJoin ==
    /\ kpc = "dtor_join"
    /\ JoinReturns(tpc)
    /\ tpc' = IF tpc = "done" THEN "none" ELSE tpc
    /\ kpc' = "dtor_free"
    /\ UNCHANGED << lifeVars, _running, _skipped, configVars, ringVars,
                    cursorVars, mutex, woken, cpc, workLocals, buf_tail,
                    cancel_req, histVars >>

\* line 165-176: the device is closed and the slots are freed
DtorFree ==
    /\ kpc = "dtor_free"
    /\ _buf' = NoSlots
    /\ kpc' = "destroyed"
    /\ UNCHANGED << lifeVars, _running, _skipped, configVars, _buf_head,
                    _buf_used, cursorVars, mutex, woken, cpc, workLocals, tpc,
                    buf_tail, cancel_req, histVars >>

\* ---- acquisition thread ------------------------------------------------
\* line 234: the thread enters plutosdr_read_async
ReadEnter ==
    /\ tpc = "spawned"
    /\ tpc' = "reading"
    /\ UNCHANGED << lifeVars, _running, _skipped, configVars, ringVars, cursorVars,
                    mutex, woken, cpc, workLocals, buf_tail, cancel_req, kpc,
                    histVars >>

\* variant of InSkipWindow: one block more than BUF_SKIP is discarded
InSkipWindowOneMore(skipped) == skipped <= BUF_SKIP

\* line 205: the skip test of plutosdr_callback
InSkipWindow(skipped) == skipped < BUF_SKIP

\* line 203-208: the driver delivers a block
Deliver(limit) ==
    /\ tpc = "reading"
    /\ deliveries < limit
    /\ deliveries' = deliveries + 1
    /\ IF InSkipWindow(_skipped)
          THEN /\ _skipped' = _skipped + 1
               /\ tpc' = "reading"
          ELSE /\ _skipped' = _skipped
               /\ tpc' = "cb_lock"
    /\ UNCHANGED << lifeVars, _running, configVars, ringVars, cursorVars, mutex, woken,
                    cpc, workLocals, buf_tail, cancel_req, kpc, starts,
                    pushed, overflows, emitted, advances, lastSeq, prefilled,
                    entryUsed, entryRunning, sawPrefill >>

Callback == Deliver(MaxDeliveries)

\* line 213
BufTail(head, used, num) == (head + used) % num

\* line 211-213
CbLock ==
    /\ tpc = "cb_lock"
    /\ LockFree(mutex)
    /\ mutex' = "callback"
    /\ buf_tail' = BufTail(_buf_head, _buf_used, _buf_num)
    /\ tpc' = "cb_copy"
    /\ UNCHANGED << lifeVars, _running, _skipped, configVars, ringVars, cursorVars,
                    woken, cpc, workLocals, cancel_req, kpc, histVars >>

\* line 216
IsFull(used, num) == used = num

\* variant of PushHead: a full ring does not give up its oldest block
PushHeadStuck(head, used, num) == head

\* line 218
PushHead(head, used, num) ==
    IF IsFull(used, num) THEN (head + 1) % num ELSE head

\* variant of PushUsed: the counter grows on every push
PushUsedAlways(used, num) == used + 1

\* line 220
PushUsed(used, num) ==
    IF IsFull(used, num) THEN used ELSE used + 1

\* line 214-222: memcpy into the tail slot, index update, unlock
CbPush ==
    /\ tpc = "cb_copy"
    /\ _buf' = [_buf EXCEPT ![buf_tail] = pushed + 1]
    /\ _buf_head' = PushHead(_buf_head, _buf_used, _buf_num)
    /\ _buf_used' = PushUsed(_buf_used, _buf_num)
    /\ overflows' = IF IsFull(_buf_used, _buf_num)
                       THEN overflows + 1 ELSE overflows
    /\ pushed' = pushed + 1
    /\ mutex' = "free"
    /\ tpc' = "cb_notify"
    /\ UNCHANGED << lifeVars, _running, _skipped, configVars, cursorVars, woken, cpc,
                    workLocals, buf_tail, cancel_req, kpc, deliveries, starts,
                    emitted, advances, lastSeq, prefilled, entryUsed,
                    entryRunning, sawPrefill >>

\* line 224
CbNotify ==
    /\ tpc = "cb_notify"
    /\ woken' = NotifyOne(woken)
    /\ tpc' = "reading"
    /\ UNCHANGED << lifeVars, _running, _skipped, configVars, ringVars, cursorVars,
                    mutex, cpc, workLocals, buf_tail, cancel_req, kpc,
                    histVars >>

\* line 234: plutosdr_read_async returns 0 after a cancel request
ReadCancelled ==
    /\ tpc = "reading"
    /\ cancel_req
    /\ cancel_req' = FALSE
    /\ tpc' = "returned"
    /\ UNCHANGED << lifeVars, _running, _skipped, configVars, ringVars, cursorVars,
                    mutex, woken, cpc, workLocals, buf_tail, kpc, histVars >>

\* line 234: plutosdr_read_async returns a nonzero status
ReadError ==
    /\ tpc = "reading"
    /\ cancel_req' = FALSE
    /\ tpc' = "returned"
    /\ UNCHANGED << lifeVars, _running, _skipped, configVars, ringVars, cursorVars,
                    mutex, woken, cpc, workLocals, buf_tail, kpc, histVars >>

\* line 236
WaitClearRunning ==
    /\ tpc = "returned"
    /\ _running' = FALSE
    /\ tpc' = "exit_notify"
    /\ UNCHANGED << lifeVars, _skipped, configVars, ringVars, cursorVars, mutex, woken,
                    cpc, workLocals, buf_tail, cancel_req, kpc, histVars >>

\* line 241
WaitNotify ==
    /\ tpc = "exit_notify"
    /\ woken' = NotifyOne(woken)
    /\ tpc' = "done"
    /\ UNCHANGED << lifeVars, _running, _skipped, configVars, ringVars, cursorVars,
                    mutex, cpc, workLocals, buf_tail, cancel_req, kpc,
                    histVars >>

\* ---- work() -------------------------------------------------------------
\* requests of half a block, one block and MaxWant half blocks
Wants == {k * (SampPerBuf(_buf_len) \div 2) : k \in {1, 2, MaxWant}}

\* line 245-253: the scheduler calls work(noutput_items) on a constructed
\* source; the lock is taken
WorkEnter ==
    /\ cpc = "idle"
    /\ kpc \in {"idle", "stop_cancel", "stop_join"}
    /\ LockFree(mutex)
    /\ \E w \in Wants :
          /\ want' = w
          /\ noutput_items' = w
    /\ out' = 0
    /\ mutex' = "work"
    /\ cpc' = "pred"
    /\ entryUsed' = _buf_used
    /\ entryRunning' = _running
    /\ sawPrefill' = FALSE
    /\ UNCHANGED << lifeVars, _running, _skipped, configVars, ringVars, cursorVars,
                    woken, nout, bufp, ret, tpc, buf_tail, cancel_req, kpc,
                    deliveries, starts, pushed, overflows, emitted, advances,
                    lastSeq, prefilled >>

\* variant of MustWait: the prefill loop is content with one block less
MustWaitOneLess(used, running) == used < MIN_PREFILL - 1 /\ running

\* variant of MustWait: the prefill loop does not test _running
MustWaitIgnoreRunning(used, running) == used < MIN_PREFILL

\* line 255: the condition of the prefill loop
MustWait(used, running) == used < MIN_PREFILL /\ running

\* line 255-257: the condition is evaluated with the lock held; when it is
\* false the scope ends and the lock is released
WorkPred ==
    /\ cpc = "pred"
    /\ IF MustWait(_buf_used, _running)
          THEN /\ cpc' = "do_wait"
               /\ mutex' = mutex
          ELSE /\ cpc' = "chk_running"
               /\ mutex' = "free"
    /\ prefilled' = (prefilled \/ _buf_used >= MIN_PREFILL)
    /\ sawPrefill' = (sawPrefill \/ _buf_used >= MIN_PREFILL)
    /\ UNCHANGED << lifeVars, _running, _skipped, configVars, ringVars, cursorVars,
                    woken, workLocals, tpc, buf_tail, cancel_req, kpc,
                    deliveries, starts, pushed, overflows, emitted, advances,
                    lastSeq, entryUsed, entryRunning >>

\* line 256: wait releases the lock and blocks
WorkWait ==
    /\ cpc = "do_wait"
    /\ cpc' = "waiting"
    /\ mutex' = "free"
    /\ woken' = FALSE
    /\ UNCHANGED << lifeVars, _running, _skipped, configVars, ringVars, cursorVars,
                    workLocals, tpc, buf_tail, cancel_req, kpc, histVars >>

\* line 256: a woken wait takes the lock again and returns
WorkWake ==
    /\ cpc = "waiting"
    /\ woken
    /\ LockFree(mutex)
    /\ mutex' = "work"
    /\ woken' = FALSE
    /\ cpc' = "pred"
    /\ UNCHANGED << lifeVars, _running, _skipped, configVars, ringVars, cursorVars,
                    workLocals, tpc, buf_tail, cancel_req, kpc, histVars >>

\* line 256: a condition variable may wake its waiter without a notify
SpuriousWake ==
    /\ cpc = "waiting"
    /\ ~woken
    /\ woken' = TRUE
    /\ UNCHANGED << lifeVars, _running, _skipped, configVars, ringVars, cursorVars,
                    mutex, cpc, workLocals, tpc, buf_tail, cancel_req, kpc,
                    histVars >>

\* line 259-260
WorkChkRunning ==
    /\ cpc = "chk_running"
    /\ IF ~_running
          THEN /\ ret' = WORK_DONE
               /\ cpc' = "idle"
          ELSE /\ ret' = ret
               /\ cpc' = "loop"
    /\ UNCHANGED << lifeVars, _running, _skipped, configVars, ringVars, cursorVars,
                    mutex, woken, want, noutput_items, nout, bufp, out, tpc,
                    buf_tail, cancel_req, kpc, histVars >>

\* variant of LoopCond: the drain loop stops one block early
LoopCondKeepOne(n, used) == n # 0 /\ used > 1

\* line 262: the condition of the drain loop
LoopCond(n, used) == n # 0 /\ used # 0

\* variant of NoutOf: the request is not clamped to the rest of the block
NoutOfUnclamped(n, avail) == n

\* line 263
NoutOf(n, avail) == Min(n, avail)

\* line 262-264 and 286: the loop test, then either the locals of one
\* iteration (nout and the pointer into the slot at head) or the return
WorkLoop ==
    /\ cpc = "loop"
    /\ IF LoopCond(noutput_items, _buf_used)
          THEN /\ nout' = NoutOf(noutput_items, _samp_avail)
               /\ bufp' = _buf_head
               /\ ret' = ret
               /\ cpc' = "convert"
          ELSE /\ ret' = out
               /\ cpc' = "idle"
               /\ UNCHANGED << nout, bufp >>
    /\ UNCHANGED << lifeVars, _running, _skipped, configVars, ringVars, cursorVars,
                    mutex, woken, want, noutput_items, out, tpc, buf_tail,
                    cancel_req, kpc, histVars >>

\* line 266-272 and 282: nout samples are converted from the slot the
\* pointer was taken from, and the cursor moves
WorkConvert ==
    /\ cpc = "convert"
    /\ lastSeq' = _buf[bufp]
    /\ emitted' = emitted + nout
    /\ out' = out + nout
    /\ noutput_items' = noutput_items - nout
    /\ _samp_avail' = _samp_avail - nout
    /\ IF _samp_avail' = 0
          THEN /\ cpc' = "adv_lock"
               /\ _buf_offset' = _buf_offset
          ELSE /\ cpc' = "loop"
               /\ _buf_offset' = _buf_offset + nout
    /\ UNCHANGED << lifeVars, _running, _skipped, configVars, ringVars, mutex, woken,
                    want, nout, bufp, ret, tpc, buf_tail, cancel_req, kpc,
                    deliveries, starts, pushed, overflows, advances,
                    prefilled, entryUsed, entryRunning, sawPrefill >>

\* line 274
WorkAdvLock ==
    /\ cpc = "adv_lock"
    /\ LockFree(mutex)
    /\ mutex' = "work"
    /\ cpc' = "adv"
    /\ UNCHANGED << lifeVars, _running, _skipped, configVars, ringVars, cursorVars,
                    woken, workLocals, tpc, buf_tail, cancel_req, kpc,
                    histVars >>

\* line 276
AdvHead(head, num) == (head + 1) % num

\* variant of AdvUsed: the advance forgets the decrement
AdvUsedKeep(used) == used

\* line 277: _buf_used is an unsigned int; the value -1 stands for the
\* wrapped result UINT_MAX of decrementing 0
AdvUsed(used) == used - 1

\* line 276-278: head and used move with the lock held; the scoped lock is
\* released at the end of the inner block, before the cursor is reset
WorkAdvance ==
    /\ cpc = "adv"
    /\ _buf_head' = AdvHead(_buf_head, _buf_num)
    /\ _buf_used' = AdvUsed(_buf_used)
    /\ mutex' = "free"
    /\ advances' = advances + 1
    /\ cpc' = "adv_reset"
    /\ UNCHANGED << lifeVars, _running, _skipped, configVars, _buf, cursorVars,
                    woken, workLocals, tpc, buf_tail, cancel_req, kpc,
                    deliveries, starts, pushed, overflows, emitted, lastSeq,
                    prefilled, entryUsed, entryRunning, sawPrefill >>

\* line 279-280: the cursor is reset with no lock held
WorkReset ==
    /\ cpc = "adv_reset"
    /\ _samp_avail' = SampPerBuf(_buf_len)
    /\ _buf_offset' = 0
    /\ cpc' = "loop"
    /\ UNCHANGED << lifeVars, _running, _skipped, configVars, ringVars, mutex,
                    woken, workLocals, tpc, buf_tail, cancel_req, kpc,
                    histVars >>

\* ---- specifications -----------------------------------------------------
ControlStep == Start \/ StopFlag \/ StopCancel \/ StopJoin

CtorStep == CtorOpen \/ CtorAlloc

DtorStep == DtorBegin \/ DtorCancel \/ DtorJoin \/ DtorFree

ThreadStep ==
    \/ ReadEnter
    \/ Callback
    \/ CbLock
    \/ CbPush
    \/ CbNotify
    \/ ReadCancelled
    \/ ReadError
    \/ WaitClearRunning
    \/ WaitNotify

WorkStep ==
    \/ WorkEnter
    \/ WorkPred
    \/ WorkWait
    \/ WorkWake
    \/ WorkChkRunning
    \/ WorkLoop
    \/ WorkConvert
    \/ WorkAdvLock
    \/ WorkAdvance
    \/ WorkReset

Next ==
    \/ CtorStep
    \/ ControlStep
    \/ DtorStep
    \/ ThreadStep
    \/ WorkStep
    \/ SpuriousWake

Spec == Init /\ [][Next]_vars

\* the driver delivers a burst of blocks to a started source while work() is
\* not called
InitPush ==
    /\ \E buffers \in {0} \cup BuffersArgs : Constructed(buffers, 0)
    /\ _running = TRUE
    /\ tpc = "reading"
    /\ kpc = "idle"
    /\ starts = 1

BurstCallback == Deliver(MaxBurst)

NextPush == BurstCallback \/ CbLock \/ CbPush \/ CbNotify

SpecPush == InitPush /\ [][NextPush]_vars

\* every thread that can take a step eventually takes it; the driver need
\* not deliver or fail, start() and stop() need not be called, and a wait
\* need not wake without a notify
ThreadProgress ==
    \/ ReadEnter
    \/ CbLock
    \/ CbPush
    \/ CbNotify
    \/ ReadCancelled
    \/ WaitClearRunning
    \/ WaitNotify

WorkProgress ==
    \/ WorkPred
    \/ WorkWait
    \/ WorkWake
    \/ WorkChkRunning
    \/ WorkLoop
    \/ WorkConvert
    \/ WorkAdvLock
    \/ WorkAdvance
    \/ WorkReset

StopProgress == StopCancel \/ StopJoin

FairSpec ==
    /\ Init
    /\ [][Next]_vars
    /\ WF_vars(ThreadProgress)
    /\ WF_vars(WorkProgress)
    /\ WF_vars(StopProgress)

TypeOK ==
    /\ _buf_used \in -1..(_buf_num + 1)
    /\ _buf_head \in 0..(_buf_num - 1)
    /\ mutex \in {"free", "work", "callback"}

\* ---- properties ---------------------------------------------------------
Quiescent == cpc = "idle"

PushComplete == tpc \in {"reading", "cb_lock", "cb_notify"}

\* slot i of the window, counted from head
Window(i) == _buf[(_buf_head + i) % _buf_num]

\* C1: the fill counter stays within 0.._buf_num in every reachable state, and
\* the consumer reaches its head++/used-- only with used >= 1, whatever the
\* interleaving of pushes and work() calls.
UsedInRange ==
    /\ 0 <= _buf_used
    /\ _buf_used <= _buf_num
    /\ (cpc = "adv" => _buf_used >= 1)

\* the consumer is about to take the last block after an overflow
UsedInRangeWitness ==
    /\ cpc = "adv"
    /\ _buf_used = 1
    /\ overflows > 0

\* C2: after P pushes and no consumption, used = min(P, N), the overflow
\* marker was written max(0, P - N) times, and the slots from head on hold
\* the min(P, N) newest blocks in delivery order.
DropOldest ==
    PushComplete =>
        /\ _buf_used = Min(pushed, _buf_num)
        /\ overflows = Max(0, pushed - _buf_num)
        /\ \A i \in 0..(_buf_used - 1) :
              Window(i) = pushed - _buf_used + 1 + i

\* scenario A: 15 slots, 20 pushes, 5 overflows, blocks 6..20 remain
DropOldestWitness ==
    /\ PushComplete
    /\ _buf_num = BUF_NUM
    /\ pushed = 20
    /\ _buf_used = 15
    /\ overflows = 5
    /\ Window(0) = 6
    /\ Window(14) = 20

\* C3: the tags of the blocks work() emits samples from never decrease.
FifoDelivery == [][lastSeq' >= lastSeq]_vars

\* C4: no push writes the slot the consumer holds a pointer into and is
\* converting from.
SlotExclusive == ~(tpc = "cb_copy" /\ cpc = "convert" /\ buf_tail = bufp)

\* C5: between work() calls the samples emitted are advances whole blocks
\* plus the offset into the current one, and emitted + used * C - offset
\* equals (pushed - dropped) * C, with C the samples of one block.
SampleConservation ==
    Quiescent =>
        /\ emitted = advances * SampPerBuf(_buf_len) + _buf_offset
        /\ emitted + _buf_used * SampPerBuf(_buf_len) - _buf_offset
              = (pushed - overflows) * SampPerBuf(_buf_len)
        /\ (_buf_used = 0 =>
              emitted = (pushed - overflows) * SampPerBuf(_buf_len))

\* between calls, part-way through a block, after an overflow and an advance
SampleConservationWitness ==
    /\ Quiescent
    /\ overflows > 0
    /\ advances > 0
    /\ _buf_offset > 0

\* C6: work() returns WORK_DONE only when the ring buffer is empty.
EosOnlyWhenDrained ==
    [][(cpc = "chk_running" /\ cpc' = "idle" /\ ret' = WORK_DONE)
          => _buf_used = 0]_vars

\* C7: a work() call that begins with the source stopped and the buffer empty
\* never waits, emits nothing, never advances head/used (advances counts the
\* consumer's only writes to them), leaves the cursor alone, and returns
\* WORK_DONE.
EntryIdle == ~entryRunning /\ entryUsed = 0

IdleReturnsEos ==
    /\ [](EntryIdle =>
            /\ cpc \in {"pred", "chk_running", "idle"}
            /\ (cpc # "idle" => out = 0)
            /\ (cpc = "idle" => ret = WORK_DONE))
    /\ [][(EntryIdle /\ EntryIdle') =>
            /\ UNCHANGED cursorVars
            /\ advances' = advances
            /\ emitted' = emitted]_vars

\* the call returned WORK_DONE after the acquisition thread ended on a
\* driver error with nothing buffered
IdleReturnsEosWitness ==
    /\ EntryIdle
    /\ cpc = "idle"
    /\ ret = WORK_DONE
    /\ tpc = "done"
    /\ kpc = "idle"
    /\ _buf_used = 0

\* C8: a work() call that is waiting, or about to wait, when the acquisition
\* loop exits eventually returns.
WaitEndsAtShutdown ==
    (cpc \in {"do_wait", "waiting"} /\ tpc = "returned") ~> (cpc = "idle")

\* C9: once a work() call has seen the prefill threshold reached, a later
\* work() call that begins with at least one filled block does not wait on
\* the condition variable.
NoWaitAfterPrefill ==
    ~(prefilled /\ entryUsed >= 1 /\ cpc \in {"do_wait", "waiting"})

\* C10: a work() call never waits after it has emitted a sample, returns a
\* count within 0..want, and returns less than want only on seeing used = 0.
PartialFulfilment ==
    /\ [](/\ (cpc \in {"do_wait", "waiting"} => out = 0)
          /\ (cpc # "idle" => (0 <= out /\ out <= want)))
    /\ [][(cpc = "loop" /\ cpc' = "idle") =>
            /\ ret' = out
            /\ 0 <= ret' /\ ret' <= want
            /\ (ret' < want => _buf_used = 0)]_vars

\* the call returned some samples, fewer than requested
PartialFulfilmentWitness ==
    /\ cpc = "idle"
    /\ ret > 0
    /\ ret < want
    /\ _buf_used = 0

\* C11: a work() call is in its drain loop, or has emitted a sample, only
\* after it saw used >= 3 with the lock held; a call that finds used < 3 while
\* running goes on to wait, and emits nothing while it waits.
Draining == cpc \in {"loop", "convert", "adv_lock", "adv", "adv_reset"}

PrefillGate ==
    /\ [](/\ (Draining => sawPrefill)
          /\ ((cpc # "idle" /\ out > 0) => sawPrefill)
          /\ (cpc \in {"do_wait", "waiting"} => (out = 0 /\ ~sawPrefill)))
    /\ [][(cpc = "pred" /\ _buf_used < MIN_PREFILL /\ _running)
            => cpc' \in {"pred", "do_wait"}]_vars
    /\ [][(~Draining /\ cpc' = cpc) =>
            (emitted' = emitted /\ advances' = advances)]_vars

\* the call began with fewer than 3 blocks while running, was blocked, and
\* drains after a later push brought used to 3
PrefillGateWitness ==
    /\ cpc = "convert"
    /\ entryRunning
    /\ entryUsed = 2
    /\ sawPrefill
    /\ out = 0

\* C12: the first BUF_SKIP deliveries are discarded without touching head,
\* used, a slot or the condition variable; every later delivery is pushed.
InPush == tpc \in {"cb_lock", "cb_copy"}

SkipPolicy ==
    /\ [](/\ (InPush => pushed + 1 = deliveries - BUF_SKIP)
          /\ (~InPush => pushed = Max(0, deliveries - BUF_SKIP)))
    /\ [][(deliveries' = deliveries + 1) =>
            IF deliveries < BUF_SKIP
               THEN /\ UNCHANGED << ringVars, woken, mutex >>
                    /\ tpc' = "reading"
               ELSE /\ tpc' = "cb_lock"
                    /\ _skipped' = _skipped]_vars

\* the second delivery is the first block stored
SkipPolicyWitness ==
    /\ tpc = "cb_notify"
    /\ deliveries = BUF_SKIP + 1
    /\ _skipped = BUF_SKIP
    /\ pushed = 1
    /\ _buf_used = 1
    /\ _buf[0] = 1

\* C13: every stop() call returns: once stop() has cleared _running, its
\* cancel and join complete.
StopTerminates == (kpc = "stop_cancel") ~> (kpc = "idle")

\* C14: from the moment stop() has cleared _running until it returns,
\* _running stays false; once stop() has returned, and until the next
\* start(), no acquisition thread exists and no push changes head, used or a
\* slot (the slots change only when the destructor releases them).
StopOrdering ==
    /\ [](/\ (kpc \in {"stop_cancel", "stop_join"} => ~_running)
          /\ (stopped => (tpc = "none" /\ ~_running)))
    /\ [][(stopped /\ stopped') =>
            (pushed' = pushed /\ overflows' = overflows
             /\ _buf' \in {_buf, NoSlots} /\ _skipped' = _skipped)]_vars

\* stop() has returned with blocks left in the ring
StopOrderingWitness ==
    /\ stopped
    /\ kpc = "idle"
    /\ pushed >= 2
    /\ _buf_used >= 1

\* C15: when the destructor has released the slots, the acquisition thread
\* has terminated.
FreeAfterThreadEnd == (kpc = "destroyed") => (tpc \in {"none", "done"})

\* C16: a constructor whose plutosdr_open failed has thrown, with no slot
\* allocated, no acquisition thread and _running false.
NoPartialState ==
    (open_ret < 0) =>
        /\ kpc = "failed"
        /\ _buf = NoSlots
        /\ tpc = "none"
        /\ ~_running
        /\ starts = 0

\* the open failed and the constructor threw
NoPartialStateWitness ==
    /\ kpc = "failed"
    /\ open_ret < 0
    /\ _buf = NoSlots

\* C17: outside the hand-over of a finished block (lines 272-280),
\* _samp_avail + _buf_offset is the number of samples of one block, with
\* 1 <= _samp_avail <= that number and 0 <= _buf_offset < that number.
CursorInvariant ==
    (cpc \notin {"adv_lock", "adv", "adv_reset"}) =>
        /\ _samp_avail + _buf_offset = SampPerBuf(_buf_len)
        /\ 1 <= _samp_avail
        /\ _samp_avail <= SampPerBuf(_buf_len)
        /\ 0 <= _buf_offset
        /\ _buf_offset < SampPerBuf(_buf_len)

\* between two iterations of the drain loop, part-way through a block, after
\* an earlier block was finished
CursorInvariantWitness ==
    /\ cpc = "loop"
    /\ _buf_offset > 0
    /\ advances > 0
    /\ out > _buf_offset

\* C18: head and used change only in a push made with the callback holding
\* the mutex or in an advance made with work() holding it; work() holds the
\* mutex only around the prefill test and the advance, never while it
\* converts.
LockDiscipline ==
    /\ [](/\ (mutex = "callback" <=> tpc = "cb_copy")
          /\ (mutex = "work" <=> cpc \in {"pred", "do_wait", "adv"})
          /\ (cpc = "convert" => mutex # "work"))
    /\ [][(_buf_head' # _buf_head \/ _buf_used' # _buf_used) =>
            \/ (tpc = "cb_copy" /\ mutex = "callback" /\ pushed' = pushed + 1)
            \/ (cpc = "adv" /\ mutex = "work" /\ advances' = advances + 1)]_vars

\* work() converts while the callback holds the mutex for a push
LockDisciplineWitness ==
    /\ cpc = "convert"
    /\ tpc = "cb_copy"
    /\ mutex = "callback"
    /\ advances > 0

\* C19: between work() calls, whenever the offset into the current block is
\* not 0, the block at head is the block the consumer last emitted samples
\* from.
ResumeSameBlock ==
    (Quiescent /\ _buf # NoSlots /\ _buf_offset > 0)
        => (_buf[_buf_head] = lastSeq)

\* C20: no step of start() or stop() changes head, used, a slot, the cursor
\* or _skipped; so the blocks in the ring when start() is called again are
\* the ones stop() left there, and once BUF_SKIP deliveries were discarded
\* every delivery of a restarted stream is pushed.
InStartStop == {"idle", "stop_cancel", "stop_join"}

LifecycleFrame ==
    /\ [][(/\ kpc \in InStartStop
           /\ kpc' \in InStartStop
           /\ (kpc' # kpc \/ starts' # starts \/ stopped' # stopped))
            => UNCHANGED << ringVars, cursorVars, _skipped >>]_vars
    /\ [][(starts' = starts + 1) => (carried' = _buf_used')]_vars
    /\ [][(starts >= 2 /\ deliveries >= BUF_SKIP
            /\ deliveries' = deliveries + 1)
            => (tpc' = "cb_lock" /\ _skipped' = _skipped)]_vars

\* after stop() and a second start(), work() converts block 1, which was
\* pushed before the stop, and the restarted stream discarded nothing
LifecycleFrameWitness ==
    /\ starts = 2
    /\ carried >= 1
    /\ cpc = "convert"
    /\ _running
    /\ emitted = 0
    /\ overflows = 0
    /\ _buf[bufp] = 1
    /\ pushed = deliveries - BUF_SKIP
    /\ pushed > carried

====
